---- MODULE Spec2Model ----
(***************************************************************************)
(* Model of the vectorization core of flo_curves:                          *)
(*   - trace_outline_concave / flood_fill_concave (fill_concave.rs)        *)
(*   - find_roots / count_x_axis_crossings        (find_roots.rs)          *)
(*   - RayCastContour / raycast_intercepts_on_line (ray_cast_contour.rs)   *)
(*   - BezierCurve::subdivide / Curve             (bezier/mod.rs)          *)
(*   - check_contour_against_bitmap (circular_distance_field_tests.rs)     *)
(* Indices into `edges` and `long_edges` keep the 0-based values of the    *)
(* source; a sequence element i of the source is element i+1 here.         *)
(***************************************************************************)
EXTENDS Integers, Sequences, FiniteSets, TLC

VARIABLES
    pc,               \* position in flood_fill_concave / trace_outline_concave
    step,             \* options.step
    edges,            \* trace_outline_concave: `edges`
    long_edges,       \* trace_outline_concave: `long_edges`
    long_edge_index,  \* trace_outline_concave: `long_edge_index`
    outline,          \* value returned by trace_outline_concave
    probes,           \* number of calls of trace_outline_convex_partial so far
    initial_edges,    \* number of collisions the initial convex trace returned
    last_probe,       \* new_edges of the latest probe (<<>> when it was skipped)
    curves,           \* value returned by fit_curve
    fill_result,      \* value returned by flood_fill_concave
    paths_built,      \* calls of Path::from_points / path_remove_interior_points
    r_pc,             \* position in find_roots
    points,           \* find_roots: the control polygon it was called with
    sections,         \* find_roots: `sections`, the last element is the top of the stack
    roots,            \* find_roots: `roots`
    discarded,        \* the section the latest `continue` of a crossing-free polygon dropped
    y_unit,           \* the unit the y values of `points` are counted in
    c_pc,             \* RayCastContour: constructed / a line has been queried
    size_width,       \* RayCastContour: size.width()
    scale_factor,     \* RayCastContour: scale_factor
    line_y,           \* the y position handed to intercept_fn by the latest query
    intercepts,       \* what intercept_fn returned for it
    line_result,      \* what intercepts_on_line returned
    g_pc,             \* position in check_contour_against_bitmap
    contour,          \* the SampledContour it was called with
    bitmap,           \* the Vec<bool> it collects from point_is_inside
    bitmap_edges,     \* edge cells of the BoolSampledContour
    contour_edges,    \* edge cells of the contour
    b_pc,             \* Curve: constructed / subdivided
    curve,            \* the Curve `self` of subdivide
    sub_t,            \* the numerator of subdivide's argument t
    sub_curves        \* what subdivide returned

traceVars == <<pc, step, edges, long_edges, long_edge_index, outline, probes,
               initial_edges, last_probe, curves, fill_result, paths_built>>

rootVars == <<r_pc, points, sections, roots, discarded, y_unit>>

contourVars == <<c_pc, size_width, scale_factor, line_y, intercepts, line_result>>

gridVars == <<g_pc, contour, bitmap, bitmap_edges, contour_edges>>

curveVars == <<b_pc, curve, sub_t, sub_curves>>

vars == <<traceVars, rootVars, contourVars, gridVars, curveVars>>

notTrace == <<rootVars, contourVars, gridVars, curveVars>>
notRoots == <<traceVars, contourVars, gridVars, curveVars>>
notContour == <<traceVars, rootVars, gridVars, curveVars>>
notGrid == <<traceVars, rootVars, contourVars, curveVars>>
notCurve == <<traceVars, rootVars, contourVars, gridVars>>

-----------------------------------------------------------------------------
(* Bounds of the model *)

MaxConvexLen == 2      \* longest initial convex trace
MaxProbeLen == 4       \* longest result of one probe
MaxEdges == 4          \* probes that would grow `edges` beyond this are not taken

-----------------------------------------------------------------------------
(* Option<T> *)

None == <<>>
Some(x) == <<x>>

(* The state of a component none of whose operations has been called *)

TraceIdle ==
    /\ pc = "idle"
    /\ step = 1
    /\ edges = <<>>
    /\ long_edges = <<>>
    /\ long_edge_index = 0
    /\ outline = <<>>
    /\ probes = 0
    /\ initial_edges = 0
    /\ last_probe = <<>>
    /\ curves = None
    /\ fill_result = None
    /\ paths_built = 0

RootsIdle ==
    /\ r_pc = "idle"
    /\ points = <<>>
    /\ sections = <<>>
    /\ roots = <<>>
    /\ discarded = None
    /\ y_unit = "flatness"

ContourIdle ==
    /\ c_pc = "idle"
    /\ size_width = 0
    /\ scale_factor = 1
    /\ line_y = 0
    /\ intercepts = <<>>
    /\ line_result = <<>>

GridIdle ==
    /\ g_pc = "idle"
    /\ contour = [size |-> <<0, 0>>, lines |-> <<>>]
    /\ bitmap = <<>>
    /\ bitmap_edges = <<>>
    /\ contour_edges = <<>>

CurveIdle ==
    /\ b_pc = "idle"
    /\ curve = <<>>
    /\ sub_t = 0
    /\ sub_curves = <<>>

(* Coordinates: 2D points with integer components *)

Points == {<<0, 0>>, <<4, 0>>}
Items == {1}
Steps == {-1, 1}

Sub(a, b) == <<a[1] - b[1], a[2] - b[2]>>
Dot(a, b) == a[1] * b[1] + a[2] * b[2]

(* enum ConcaveItem *)
Edge(item) == [tag |-> "Edge", ref |-> item]
SelfIntersection(edge_index) == [tag |-> "SelfIntersection", ref |-> edge_index]

(* a conversion that passes the payload of either variant on *)
IntoOption_KeepMarker(what) == Some(what.ref)

(* impl Into<Option<Item>> for ConcaveItem *)
IntoOption(what) == IF what.tag = "Edge" THEN Some(what.ref) ELSE None

RayCollision(position, what) == [position |-> position, what |-> what]

(* Sequences of length 0..n over S *)
SeqUpTo(S, n) == UNION {[1..k -> S] : k \in 0..n}

(* the slice s[from..to) of the source (0-based, half open) *)
Slice(s, from, to) == SubSeq(s, from + 1, to)

-----------------------------------------------------------------------------
(* fn find_long_edges *)

find_long_edges(es, edge_min_len_squared) ==
    LET n == Len(es)
        last_edge(edge_num) == IF edge_num = 0 THEN n - 1 ELSE edge_num - 1
        edge_offset(edge_num) ==
            Sub(es[last_edge(edge_num) + 1].position, es[edge_num + 1].position)
        is_long(edge_num) ==
            Dot(edge_offset(edge_num), edge_offset(edge_num)) >= edge_min_len_squared
        nums == SelectSeq([i \in 1..n |-> i - 1], is_long)
    IN  [k \in 1..Len(nums) |->
            [start        |-> es[last_edge(nums[k]) + 1].position,
             end          |-> es[nums[k] + 1].position,
             edge_index   |-> <<last_edge(nums[k]), nums[k]>>,
             ray_collided |-> FALSE]]

(* let edge_min_len = options.step * 4.0; edge_min_len * edge_min_len *)
edge_min_len_squared(s) == (s * 4) * (s * 4)


-----------------------------------------------------------------------------
(* trace_outline_concave: the pieces of the long-edge loop *)

(* the early return taken only for an empty trace *)
TooFewCollisions_OnlyEmpty(es) == Len(es) < 1

(* `if edges.len() < 2 { return vec![]; }` *)
TooFewCollisions(es) == Len(es) < 2

(* the `cast_ray` wrapper: every collision of the caller's function becomes
   ConcaveItem::Edge(what) *)
WrapCollision(position, item) == RayCollision(position, Edge(item))

(* `for new_edge in new_edges.iter()`: set ray_collided on every long edge a
   SelfIntersection collision names *)
InvalidateCollided(les, new_edges) ==
    [k \in 1..Len(les) |->
        IF \E j \in 1..Len(new_edges) : new_edges[j].what = SelfIntersection(k - 1)
        THEN [les[k] EXCEPT !.ray_collided = TRUE]
        ELSE les[k]]

(* `new_long_edges.retain(|edge| edge.edge_index.1 != 0)` *)
RetainNotFirst(les) ==
    LET keep(e) == e.edge_index[2] # 0 IN SelectSeq(les, keep)

(* Vec::splice(at..at, items): insert items before 0-based position `at` *)
SpliceAt(s, at, items) == SubSeq(s, 1, at) \o items \o SubSeq(s, at + 1, Len(s))

(* an update that leaves the indexes of the remaining long edges alone *)
UpdateIndexes_None(les, lei, edge_index, num_new_edges) == les

(* `if long_edges[update_idx].edge_index.N >= edge_index { ... += num_new_edges }`
   for update_idx in long_edge_index..long_edges.len() *)
UpdateIndexes(les, lei, edge_index, num_new_edges) ==
    LET bump(i) == IF i >= edge_index THEN i + num_new_edges ELSE i
    IN  [k \in 1..Len(les) |->
            IF k - 1 >= lei
            THEN [les[k] EXCEPT !.edge_index = <<bump(@[1]), bump(@[2])>>]
            ELSE les[k]]

(* `edge.edge_index.0 += edge_index; edge.edge_index.1 += edge_index` *)
OffsetIndexes(les, edge_index) ==
    [k \in 1..Len(les) |->
        [les[k] EXCEPT !.edge_index = <<@[1] + edge_index, @[2] + edge_index>>]]

(* an interior that keeps the first and the last collision of the probe *)
Interior_Whole(new_edges) == new_edges

(* the interior of a probe: `new_edges.into_iter().skip(1).take(num_new_edges)` *)
Interior(new_edges) == Slice(new_edges, 1, Len(new_edges) - 1)

(* body of `if new_edges.len() > 2 { ... }`: the new edges and long edges *)
InsertProbe(es, les, lei, new_edges, min_len_sq) ==
    LET next_edge_index == les[lei + 1].edge_index[2]
        invalidated     == InvalidateCollided(les, new_edges)
        new_long_edges  == RetainNotFirst(find_long_edges(Interior(new_edges), min_len_sq))
        num_new_edges   == Len(new_edges) - 2
        updated         == UpdateIndexes(invalidated, lei, next_edge_index, num_new_edges)
    IN  [edges      |-> SpliceAt(es, next_edge_index, Interior(new_edges)),
         long_edges |-> SpliceAt(updated, lei + 1,
                                 OffsetIndexes(new_long_edges, next_edge_index))]

(* one pass of the body of `while long_edge_index < long_edges.len()` after the
   probe returned new_edges *)
AfterProbe(es, les, lei, new_edges, min_len_sq) ==
    IF Len(new_edges) > 2
    THEN InsertProbe(es, les, lei, new_edges, min_len_sq)
    ELSE [edges |-> es, long_edges |-> les]

(* the final `edges.into_iter().map(...)`: what.into() for every collision *)
StripItems(es) ==
    [k \in 1..Len(es) |-> RayCollision(es[k].position, IntoOption(es[k].what))]

(* What one ray of cast_ray_to_edges can yield while long edge `lei` is probed:
   a collision of the caller's function, or a marker on another long edge *)
ProbeCollisions(les, lei) ==
    {WrapCollision(p, i) : p \in Points, i \in Items}
    \cup {RayCollision(p, SelfIntersection(k)) :
            p \in Points, k \in (0..(Len(les) - 1)) \ {lei}}

(* What trace_outline_convex can return for the caller's ray-cast function *)
ConvexTraces ==
    SeqUpTo({WrapCollision(p, i) : p \in Points, i \in Items}, MaxConvexLen)

-----------------------------------------------------------------------------
(* fit_curve, Path::from_points and path_remove_interior_points are not part
   of the sources at hand; they are modelled from their specification: a fit
   of fewer than two samples has no segment, a fit may fail with None. *)

CurveBetween(a, b) == [start_point |-> a, end_point |-> b, control_points |-> <<a, b>>]

fit_curve(samples) ==
    {None}
    \cup (IF Len(samples) < 2
          THEN {Some(<<>>)}
          ELSE {Some(<<CurveBetween(samples[1], samples[Len(samples)])>>)}
               \cup {Some(<<CurveBetween(samples[1], samples[k]),
                            CurveBetween(samples[k], samples[Len(samples)])>>) :
                        k \in 2..(Len(samples) - 1)})

from_points(initial_point, segments) == [start |-> initial_point, segments |-> segments]

path_remove_interior_points(paths) == {paths, <<>>}

(* a failed fit reported as an empty list of paths *)
FloodFillOutcomes_EmptyOnFailure(cs) ==
    IF cs # None /\ Len(cs[1]) > 0
    THEN {[result |-> Some(<<from_points(cs[1][1].start_point, <<>>)>>), built |-> 1]}
    ELSE {[result |-> Some(<<>>), built |-> 0]}

(* flood_fill_concave after fit_curve returned `cs`: the possible values of
   [result, built], built counting the paths assembled by Path::from_points *)
FloodFillOutcomes(cs) ==
    IF cs # None
    THEN IF Len(cs[1]) > 0
         THEN LET overlapped_path ==
                    from_points(cs[1][1].start_point,
                                [k \in 1..Len(cs[1]) |->
                                    <<cs[1][k].control_points[1],
                                      cs[1][k].control_points[2],
                                      cs[1][k].end_point>>])
              IN  {[result |-> Some(ps), built |-> 1] :
                      ps \in path_remove_interior_points(<<overlapped_path>>)}
         ELSE {[result |-> None, built |-> 0]}
    ELSE {[result |-> None, built |-> 0]}

-----------------------------------------------------------------------------
(* find_roots.  A coordinate value v is held as the integer V = v * den, den
   being 8^depth of the section, so that bisection is exact (as it is in f64
   for these inputs).  x is counted in units of FlatnessInv and y in units of
   1: the cubics of the model are explicit-form cubics (x = t stretched to
   0..3 units) whose y amplitude is of the order of the flatness tolerance,
   the only ones a few bisections resolve. *)

MaxY == 2              \* control-point y values range over -MaxY..MaxY
MaxDepth == 3          \* sections at this depth are not subdivided further

FlatnessInv == 1000000 \* 1 / flatness epsilon (epsilon = 1e-6)

Abs(v) == IF v < 0 THEN -v ELSE v

RECURSIVE Gcd(_, _)
Gcd(a, b) == IF b = 0 THEN a ELSE Gcd(b, a % b)

(* a root value n/d in x units; d = 0 stands for an infinite f64 *)
Rat(n, d) ==
    IF d = 0
    THEN [n |-> IF n < 0 THEN -1 ELSE 1, d |-> 0]
    ELSE LET g == Gcd(Abs(n), Abs(d))
             sg == IF d < 0 THEN -1 ELSE 1
         IN  [n |-> sg * (n \div g), d |-> sg * (d \div g)]

(* a <= b on such values *)
RatLeq(a, b) ==
    IF a.d = 0 \/ b.d = 0
    THEN IF a.d = 0 /\ b.d = 0 THEN a.n <= b.n
         ELSE IF a.d = 0 THEN a.n < 0 ELSE b.n > 0
    ELSE a.n * b.d <= b.n * a.d

X(p) == p[1]
Y(p) == p[2]

(* the scenario cubic y = t (t - 0.3) (t - 0.7) k, k = 300, in Bernstein form *)
ScenarioCubic == <<0, 21, -58, 63>>

ControlYs == [1..4 -> (-MaxY)..MaxY] \cup {ScenarioCubic}

Polygon(ys) == [i \in 1..4 |-> <<i - 1, ys[i]>>]

Ys(pts) == [i \in 1..Len(pts) |-> Y(pts[i])]

Section(pts, depth, den) == [pts |-> pts, depth |-> depth, den |-> den]

(* a crossing test that takes a point on the axis for a positive one *)
Crosses_ZeroPositive(p1, p2) ==
    (Y(p1) < 0 /\ Y(p2) >= 0) \/ (Y(p1) >= 0 /\ Y(p2) < 0)

(* an edge of the control polygon that crosses y = 0 *)
Crosses(p1, p2) == (Y(p1) < 0 /\ Y(p2) > 0) \/ (Y(p1) > 0 /\ Y(p2) < 0)

(* a count of the N-1 polygon edges alone *)
count_x_axis_crossings_OpenPolygon(pts) ==
    Cardinality({idx \in 0..(Len(pts) - 2) : Crosses(pts[idx + 1], pts[idx + 2])})

(* the count with that crossing test *)
count_x_axis_crossings_ZeroPositive(pts) ==
    LET N == Len(pts)
    IN  Cardinality({idx \in 0..(N - 2) : Crosses_ZeroPositive(pts[idx + 1], pts[idx + 2])})
        + (IF Crosses_ZeroPositive(pts[1], pts[N]) THEN 1 ELSE 0)

(* fn count_x_axis_crossings: the N-1 polygon edges, then points[0]..points[N-1] *)
count_x_axis_crossings(pts) ==
    LET N == Len(pts)
    IN  Cardinality({idx \in 0..(N - 2) : Crosses(pts[idx + 1], pts[idx + 2])})
        + (IF Crosses(pts[1], pts[N]) THEN 1 ELSE 0)

(* fn flat_enough (a todo!() stub in the source, modelled from its specification):
   every interior control point lies within epsilon * |P0 P3| of the chord.
   With x in units of FlatnessInv this is |cross| <= dX^2 + dY^2 / FlatnessInv^2;
   the last term is 0 for |dY| < FlatnessInv, which all values of the model are. *)
flat_enough(pts) ==
    LET N  == Len(pts)
        dX == X(pts[N]) - X(pts[1])
        dY == Y(pts[N]) - Y(pts[1])
        yTerm == IF Abs(dY) < FlatnessInv THEN 0
                 ELSE (Abs(dY) \div FlatnessInv) * (Abs(dY) \div FlatnessInv)
        cross(i) == dX * (Y(pts[i]) - Y(pts[1])) - dY * (X(pts[i]) - X(pts[1]))
    IN  \A i \in 2..(N - 1) : Abs(cross(i)) <= dX * dX + yTerm

(* fn find_x_intercept (a todo!() stub in the source, modelled from its
   specification): where the chord P0 P3 meets y = 0 *)
find_x_intercept(sec) ==
    LET pts == sec.pts
        N  == Len(pts)
        dX == X(pts[N]) - X(pts[1])
        dY == Y(pts[N]) - Y(pts[1])
    IN  IF dY = 0
        THEN Rat(-Y(pts[1]), 0)
        ELSE Rat(X(pts[1]) * dY - dX * Y(pts[1]), dY * sec.den)

(* subdivideN(0.5, section) (not part of the sources at hand): de Casteljau at
   t = 1/2, both halves over the denominator 8 * den *)
Left(a, b, c, d)  == <<8 * a, 4 * (a + b), 2 * (a + 2 * b + c), a + 3 * b + 3 * c + d>>
Right(a, b, c, d) == <<a + 3 * b + 3 * c + d, 2 * (b + 2 * c + d), 4 * (c + d), 8 * d>>

subdivideN(sec) ==
    LET p  == sec.pts
        lx == Left(X(p[1]), X(p[2]), X(p[3]), X(p[4]))
        ly == Left(Y(p[1]), Y(p[2]), Y(p[3]), Y(p[4]))
        rx == Right(X(p[1]), X(p[2]), X(p[3]), X(p[4]))
        ry == Right(Y(p[1]), Y(p[2]), Y(p[3]), Y(p[4]))
    IN  <<Section([i \in 1..4 |-> <<lx[i], ly[i]>>], sec.depth + 1, 8 * sec.den),
          Section([i \in 1..4 |-> <<rx[i], ry[i]>>], sec.depth + 1, 8 * sec.den)>>

(* The same cubics at the bottom of the f64 range: y is counted in units of
   the smallest subnormal 2^-1074 and is not rescaled, x is exact as before.
   There a + (b - a) * 0.5 is a plus half the difference rounded to even. *)
HalfEven(d) ==
    IF d % 2 = 0 THEN d \div 2
    ELSE IF (d \div 2) % 2 = 0 THEN d \div 2 ELSE d \div 2 + 1

LerpHalf(a, b) == a + HalfEven(b - a)

(* subdivideN(0.5, section) on such a section *)
subdivideN_subnormal(sec) ==
    LET p    == sec.pts
        lx   == Left(X(p[1]), X(p[2]), X(p[3]), X(p[4]))
        rx   == Right(X(p[1]), X(p[2]), X(p[3]), X(p[4]))
        wn1  == LerpHalf(Y(p[1]), Y(p[2]))
        wn2  == LerpHalf(Y(p[2]), Y(p[3]))
        wn3  == LerpHalf(Y(p[3]), Y(p[4]))
        wnn1 == LerpHalf(wn1, wn2)
        wnn2 == LerpHalf(wn2, wn3)
        mid  == LerpHalf(wnn1, wnn2)
        ly   == <<Y(p[1]), wn1, wnn1, mid>>
        ry   == <<mid, wnn2, wn3, Y(p[4])>>
    IN  <<Section([i \in 1..4 |-> <<lx[i], ly[i]>>], sec.depth + 1, 8 * sec.den),
          Section([i \in 1..4 |-> <<rx[i], ry[i]>>], sec.depth + 1, 8 * sec.den)>>

(* fn flat_enough on such a section: the distance of a control point from the
   chord is a few units of 2^-1074, the chord is as long as the section is
   wide *)
flat_enough_subnormal(pts) == X(pts[Len(pts)]) # X(pts[1])

(* the halves pushed in the other order *)
PushHalves_LeftFirst(stack, left, right) == Append(Append(stack, left), right)

(* `sections.push(right); sections.push(left);` *)
PushHalves(stack, left, right) == Append(Append(stack, right), left)

(* a test that finds a crossing in every section *)
NoRoots_Never(sec) == FALSE

(* `if num_crossings == 0 { continue; }` *)
NoRoots(sec) == count_x_axis_crossings(sec.pts) = 0

(* `if num_crossings == 1 && flat_enough(&section)` *)
SingleFlatRoot(sec) ==
    /\ count_x_axis_crossings(sec.pts) = 1
    /\ IF y_unit = "subnormal" THEN flat_enough_subnormal(sec.pts) ELSE flat_enough(sec.pts)

(* `roots.push(find_x_intercept(&section));` *)
PushRoot(rs, sec) == Append(rs, find_x_intercept(sec))

Top(stack) == stack[Len(stack)]
Pop(stack) == SubSeq(stack, 1, Len(stack) - 1)

RootsInit ==
    /\ r_pc = "loop"
    /\ points \in {Polygon(ys) : ys \in ControlYs}
    /\ sections = <<Section(points, 0, 1)>>
    /\ roots = <<>>
    /\ discarded = None
    /\ y_unit = "flatness"

(* line 64: the stack is empty, the roots are returned *)
ReturnRoots ==
    /\ r_pc = "loop"
    /\ sections = <<>>
    /\ r_pc' = "done"
    /\ UNCHANGED <<notRoots, points, sections, roots, discarded, y_unit>>

(* lines 67-72: the popped section has no crossing *)
DiscardSection ==
    /\ r_pc = "loop"
    /\ sections # <<>>
    /\ NoRoots(Top(sections))
    /\ sections' = Pop(sections)
    /\ discarded' = Some(Top(sections))
    /\ UNCHANGED <<notRoots, r_pc, points, roots, y_unit>>

(* lines 74-78: the popped section has one crossing and is flat enough *)
EmitRoot ==
    /\ r_pc = "loop"
    /\ sections # <<>>
    /\ ~NoRoots(Top(sections))
    /\ SingleFlatRoot(Top(sections))
    /\ roots' = PushRoot(roots, Top(sections))
    /\ sections' = Pop(sections)
    /\ UNCHANGED <<notRoots, r_pc, points, discarded, y_unit>>

(* lines 80-83: the popped section is subdivided in the middle *)
SubdivideSection ==
    /\ r_pc = "loop"
    /\ sections # <<>>
    /\ ~NoRoots(Top(sections))
    /\ ~SingleFlatRoot(Top(sections))
    /\ Top(sections).depth < MaxDepth
    /\ LET halves == IF y_unit = "subnormal"
                     THEN subdivideN_subnormal(Top(sections))
                     ELSE subdivideN(Top(sections))
       IN  sections' = PushHalves(Pop(sections), halves[1], halves[2])
    /\ UNCHANGED <<notRoots, r_pc, points, roots, discarded, y_unit>>

InitRoots == TraceIdle /\ RootsInit /\ ContourIdle /\ GridIdle /\ CurveIdle

NextRoots == ReturnRoots \/ DiscardSection \/ EmitRoot \/ SubdivideSection

SpecRoots == InitRoots /\ [][NextRoots]_vars

(* find_roots on the cubics of subnormal amplitude; the loop is sequential
   code that runs whenever it can take a step *)
RootsInitSubnormal ==
    /\ r_pc = "loop"
    /\ points \in {Polygon(ys) : ys \in [1..4 -> (-MaxY)..MaxY]}
    /\ sections = <<Section(points, 0, 1)>>
    /\ roots = <<>>
    /\ discarded = None
    /\ y_unit = "subnormal"

InitRootsSubnormal == TraceIdle /\ RootsInitSubnormal /\ ContourIdle /\ GridIdle /\ CurveIdle

SpecRootsSubnormal == InitRootsSubnormal /\ [][NextRoots]_vars /\ WF_vars(NextRoots)

-----------------------------------------------------------------------------
(* RayCastContour.  f64 values are the integers of the model; a Range<f64>
   is the pair <<start, end>>. *)

MaxWidth == 2          \* size.width() ranges over 0..MaxWidth
MaxRanges == 2         \* intercept_fn returns at most this many ranges
MaxLine == 1           \* y ranges over 0..MaxLine

ScaleFactors == {1, 2}

Start(r) == r[1]
End(r) == r[2]

(* the ranges an intercept function may return for a contour of this width *)
Ranges(width) == ((-1)..(width + 1)) \X ((-1)..(width + 1))

(* `.filter(|intercept| intercept.end >= 0.0 && intercept.start < width)` *)
InsideWidth(r, width) == End(r) >= 0 /\ Start(r) < width

(* a clip that moves the start of every range to 0 *)
ClipRange_FromZero(r, width) ==
    <<0, IF End(r) >= width THEN width ELSE End(r)>>

(* a clip that leaves the start of a range alone *)
ClipRange_EndOnly(r, width) ==
    <<Start(r), IF End(r) >= width THEN width ELSE End(r)>>

(* `.map(|intercept| { ... start..end })` *)
ClipRange(r, width) ==
    <<IF Start(r) < 0 THEN 0 ELSE Start(r),
      IF End(r) >= width THEN width ELSE End(r)>>

(* `.filter(|intercept| intercept.start < intercept.end)` *)
NonEmpty(r) == Start(r) < End(r)

(* fn raycast_intercepts_on_line, given what intercept_fn returned *)
raycast_intercepts_on_line(returned, width) ==
    LET inside(r)   == InsideWidth(r, width)
        kept        == SelectSeq(returned, inside)
        clipped     == [k \in 1..Len(kept) |-> ClipRange(kept[k], width)]
    IN  SelectSeq(clipped, NonEmpty)

(* RayCastContour::new(intercept_fn, size) *)
ContourNew ==
    /\ c_pc = "new"
    /\ size_width \in 0..MaxWidth
    /\ scale_factor = 1
    /\ line_y = 0
    /\ intercepts = <<>>
    /\ line_result = <<>>

(* RayCastContour::with_scale *)
WithScale ==
    /\ c_pc = "new"
    /\ \E s \in ScaleFactors : scale_factor' = s
    /\ c_pc' = "scaled"
    /\ UNCHANGED <<notContour, size_width, line_y, intercepts, line_result>>

(* SampledContour::intercepts_on_line(y): intercept_fn is called with
   y * scale_factor and returns `returned` *)
InterceptsOnLine ==
    /\ c_pc \in {"new", "scaled"}
    /\ \E y \in 0..MaxLine, returned \in SeqUpTo(Ranges(size_width), MaxRanges) :
        /\ line_y' = y * scale_factor
        /\ intercepts' = returned
        /\ line_result' = raycast_intercepts_on_line(returned, size_width)
    /\ c_pc' = "returned"
    /\ UNCHANGED <<notContour, size_width, scale_factor>>

InitContour == TraceIdle /\ RootsIdle /\ ContourNew /\ GridIdle /\ CurveIdle

NextContour == WithScale \/ InterceptsOnLine

SpecContour == InitContour /\ [][NextContour]_vars

-----------------------------------------------------------------------------
(* Sampled contours and their edge cells.  SampledContour::point_is_inside,
   BoolSampledContour and edge_cell_iterator are not part of the sources at
   hand; they are modelled from their specification.  A contour is its size
   <<width, height>> and, for every integer line y, its ascending
   non-overlapping intercept ranges. *)

MaxGrid == 2           \* width and height range over 0..MaxGrid
MaxRuns == 2           \* a line has at most this many intercept ranges

Width(size) == size[1]     \* ContourSize.0
Height(size) == size[2]    \* ContourSize.1

(* ascending, non-overlapping, non-empty ranges inside 0..width *)
LineIntercepts(width) ==
    {rs \in SeqUpTo((0..width) \X (0..width), MaxRuns) :
        /\ \A k \in 1..Len(rs) : Start(rs[k]) < End(rs[k])
        /\ \A k \in 1..(Len(rs) - 1) : End(rs[k]) <= Start(rs[k + 1])}

SampledContours ==
    UNION {{[size |-> <<w, h>>, lines |-> ls] : ls \in [1..h -> LineIntercepts(w)]} :
              w \in 0..MaxGrid, h \in 0..MaxGrid}

(* SampledContour::point_is_inside(ContourPosition(x, y)): x lies in one of
   the half-open ranges of line y *)
point_is_inside(c, x, y) ==
    /\ y < Height(c.size)
    /\ \E k \in 1..Len(c.lines[y + 1]) :
           Start(c.lines[y + 1][k]) <= x /\ x < End(c.lines[y + 1][k])

(* the sample of BoolSampledContour(size, bits) at (x, y): row-major *)
BitAt(size, bits, x, y) ==
    /\ x < Width(size)
    /\ y < Height(size)
    /\ bits[y * Width(size) + x + 1]

(* BoolSampledContour(size, bits) as a contour: the intercepts of a line are
   its maximal runs of set samples *)
BoolSampledContour(size, bits) ==
    LET w == Width(size)
        run_start(y, x) == BitAt(size, bits, x, y) /\ (x = 0 \/ ~BitAt(size, bits, x - 1, y))
        run_end(y, x) ==
            CHOOSE e \in (x + 1)..w :
                /\ \A m \in x..(e - 1) : BitAt(size, bits, m, y)
                /\ ~BitAt(size, bits, e, y)
        starts(y) == LET is_start(x) == run_start(y, x)
                     IN  SelectSeq([i \in 1..w |-> i - 1], is_start)
    IN  [size  |-> size,
         lines |-> [row \in 1..Height(size) |->
                      [k \in 1..Len(starts(row - 1)) |->
                          <<starts(row - 1)[k], run_end(row - 1, starts(row - 1)[k])>>]]]

(* the marching-squares case of cell (x, y): its corner samples on the rows y
   and y + 1 *)
CellCase(c, x, y) ==
    (IF point_is_inside(c, x, y) THEN 1 ELSE 0)
    + (IF point_is_inside(c, x + 1, y) THEN 2 ELSE 0)
    + (IF point_is_inside(c, x, y + 1) THEN 4 ELSE 0)
    + (IF point_is_inside(c, x + 1, y + 1) THEN 8 ELSE 0)

(* edge_cell_iterator: the cells that are neither empty nor full, top to
   bottom and left to right, as <<ContourPosition, case>> *)
edge_cell_iterator(c) ==
    LET w == Width(c.size)
        h == Height(c.size)
        cell(i) == <<<<(i - 1) % w, (i - 1) \div w>>, CellCase(c, (i - 1) % w, (i - 1) \div w)>>
        on_edge(e) == e[2] \notin {0, 15}
    IN  SelectSeq([i \in 1..(w * h) |-> cell(i)], on_edge)

(* check_contour_against_bitmap, lines 11-14: the samples
   point_is_inside(pos % size.1, pos / size.1) for pos in 0..size.0 * size.1 *)
BitmapOf(c) ==
    [p \in 1..(Width(c.size) * Height(c.size)) |->
        point_is_inside(c, (p - 1) % Height(c.size), (p - 1) \div Height(c.size))]

GridInit ==
    /\ g_pc = "start"
    /\ contour \in SampledContours
    /\ bitmap = <<>>
    /\ bitmap_edges = <<>>
    /\ contour_edges = <<>>

(* lines 11-14: collect the bitmap *)
CollectBitmap ==
    /\ g_pc = "start"
    /\ bitmap' = BitmapOf(contour)
    /\ g_pc' = "bitmap"
    /\ UNCHANGED <<notGrid, contour, bitmap_edges, contour_edges>>

(* lines 24-28: wrap the bitmap and collect the edge cells of both *)
CollectEdges ==
    /\ g_pc = "bitmap"
    /\ bitmap_edges' = edge_cell_iterator(BoolSampledContour(contour.size, bitmap))
    /\ contour_edges' = edge_cell_iterator(contour)
    /\ g_pc' = "edges"
    /\ UNCHANGED <<notGrid, contour, bitmap>>

InitGrid == TraceIdle /\ RootsIdle /\ ContourIdle /\ GridInit /\ CurveIdle

NextGrid == CollectBitmap \/ CollectEdges

SpecGrid == InitGrid /\ [][NextGrid]_vars

-----------------------------------------------------------------------------
(* struct Curve and BezierCurve::subdivide.  t is the fraction sub_t / TDenom;
   a coordinate value v is held as the integer v * TDenom^3, so that the three
   levels of interpolation are exact. *)

MaxCoord == 1          \* control-point coordinates range over 0..MaxCoord
TDenom == 2            \* t ranges over the multiples of 1 / TDenom in -1/TDenom .. 1 + 1/TDenom

Scaled(v) == v * TDenom * TDenom * TDenom

Coords == {<<Scaled(x), Scaled(y)>> : x \in 0..MaxCoord, y \in 0..MaxCoord}

(* impl BezierCurve<Coord2> for Curve: from_points(start, end, control_point1,
   control_point2) *)
Curve_from_points(start, end, control_point1, control_point2) ==
    [start_point    |-> start,
     end_point      |-> end,
     control_points |-> <<control_point1, control_point2>>]

start_point(c) == c.start_point
end_point(c) == c.end_point
control_points(c) == c.control_points

(* a + (b - a) * t on one coordinate value, then on a point *)
Lerp(a, b, t) == a + ((b - a) * t) \div TDenom
LerpPoint(a, b, t) == <<Lerp(a[1], b[1], t), Lerp(a[2], b[2], t)>>

(* subdivide4(t, w1, w2, w3, w4) (not part of the sources at hand): de
   Casteljau's triangle, the same point closing the first half and opening
   the second *)
subdivide4(t, w1, w2, w3, w4) ==
    LET wn1  == LerpPoint(w1, w2, t)
        wn2  == LerpPoint(w2, w3, t)
        wn3  == LerpPoint(w3, w4, t)
        wnn1 == LerpPoint(wn1, wn2, t)
        wnn2 == LerpPoint(wn2, wn3, t)
        p    == LerpPoint(wnn1, wnn2, t)
    IN  <<<<w1, wn1, wnn1, p>>, <<p, wnn2, wn3, w4>>>>

(* a subdivide that hands the four points of each half to from_points in
   polygon order *)
subdivide_PolygonOrder(c, t) ==
    LET cps  == control_points(c)
        both == subdivide4(t, start_point(c), cps[1], cps[2], end_point(c))
    IN  <<Curve_from_points(both[1][1], both[1][2], both[1][3], both[1][4]),
          Curve_from_points(both[2][1], both[2][2], both[2][3], both[2][4])>>

(* fn subdivide(&self, t) *)
subdivide(c, t) ==
    LET cps  == control_points(c)
        both == subdivide4(t, start_point(c), cps[1], cps[2], end_point(c))
    IN  <<Curve_from_points(both[1][1], both[1][4], both[1][2], both[1][3]),
          Curve_from_points(both[2][1], both[2][4], both[2][2], both[2][3])>>

CurveInit ==
    /\ b_pc = "curve"
    /\ curve \in {Curve_from_points(s, e, c1, c2) : s \in Coords, e \in Coords,
                                                     c1 \in Coords, c2 \in Coords}
    /\ sub_t = 0
    /\ sub_curves = <<>>

(* a call of curve.subdivide(t) *)
Subdivide ==
    /\ b_pc = "curve"
    /\ \E t \in (-1)..(TDenom + 1) :
        /\ sub_t' = t
        /\ sub_curves' = subdivide(curve, t)
    /\ b_pc' = "subdivided"
    /\ UNCHANGED <<notCurve, curve>>

InitCurve == TraceIdle /\ RootsIdle /\ ContourIdle /\ GridIdle /\ CurveInit

NextCurve == Subdivide

SpecCurve == InitCurve /\ [][NextCurve]_vars

-----------------------------------------------------------------------------
(* Actions of flood_fill_concave / trace_outline_concave *)

Init ==
    /\ pc = "start"
    /\ step \in Steps
    /\ edges = <<>>
    /\ long_edges = <<>>
    /\ long_edge_index = 0
    /\ outline = <<>>
    /\ probes = 0
    /\ initial_edges = 0
    /\ last_probe = <<>>
    /\ curves = None
    /\ fill_result = None
    /\ paths_built = 0
    /\ RootsIdle
    /\ ContourIdle
    /\ GridIdle
    /\ CurveIdle

(* lines 111-120: the initial convex trace, the early return, the first long edges *)
ConvexTrace(traces) ==
    /\ pc = "start"
    /\ \E es \in traces :
        /\ edges' = es
        /\ initial_edges' = Len(es)
        /\ IF TooFewCollisions(es)
           THEN /\ pc' = "traced"
                /\ outline' = <<>>
                /\ long_edges' = long_edges
           ELSE /\ pc' = "loop"
                /\ outline' = outline
                /\ long_edges' = find_long_edges(es, edge_min_len_squared(step))
    /\ UNCHANGED <<notTrace, step, long_edge_index, probes, last_probe, curves, fill_result,
                   paths_built>>

(* a test that takes no long edge for collided *)
Collided_Never(next_edge) == FALSE

(* `if !next_edge.ray_collided` *)
Collided(next_edge) == next_edge.ray_collided

(* lines 124-225: one iteration of the long-edge loop on an edge whose
   ray_collided flag is set: nothing is cast *)
SkipLongEdge ==
    /\ pc = "loop"
    /\ long_edge_index < Len(long_edges)
    /\ Collided(long_edges[long_edge_index + 1])
    /\ long_edge_index' = long_edge_index + 1
    /\ last_probe' = <<>>
    /\ UNCHANGED <<notTrace, pc, step, edges, long_edges, outline, probes, initial_edges,
                   curves, fill_result, paths_built>>

(* lines 124-225: one iteration that casts a probe; `new_edges` is what
   trace_outline_convex_partial returned for it *)
ProbeLongEdge(new_edges) ==
    /\ pc = "loop"
    /\ long_edge_index < Len(long_edges)
    /\ ~Collided(long_edges[long_edge_index + 1])
    /\ LET after == AfterProbe(edges, long_edges, long_edge_index, new_edges,
                               edge_min_len_squared(step))
       IN  /\ edges' = after.edges
           /\ long_edges' = after.long_edges
    /\ last_probe' = new_edges
    /\ probes' = probes + 1
    /\ long_edge_index' = long_edge_index + 1
    /\ UNCHANGED <<notTrace, pc, step, outline, initial_edges, curves, fill_result, paths_built>>

(* lines 227-233: the loop is over, the outline is returned *)
ReturnOutline ==
    /\ pc = "loop"
    /\ long_edge_index >= Len(long_edges)
    /\ outline' = StripItems(edges)
    /\ pc' = "traced"
    /\ UNCHANGED <<notTrace, step, edges, long_edges, long_edge_index, probes, initial_edges,
                   last_probe, curves, fill_result, paths_built>>

(* lines 251-273: flood_fill_concave fits the outline and builds the path *)
FloodFill ==
    /\ pc = "traced"
    /\ \E cs \in fit_curve([k \in 1..Len(outline) |-> outline[k].position]) :
        /\ curves' = cs
        /\ \E out \in FloodFillOutcomes(cs) :
            /\ fill_result' = out.result
            /\ paths_built' = out.built
    /\ pc' = "done"
    /\ UNCHANGED <<notTrace, step, edges, long_edges, long_edge_index, outline, probes,
                   initial_edges, last_probe>>

(* every probe result of at most MaxProbeLen collisions that leaves `edges`
   within the model's bound (`room` = collisions the probe may return) *)
Min(a, b) == IF a <= b THEN a ELSE b
AnyProbe(les, lei, room) == SeqUpTo(ProbeCollisions(les, lei), Min(MaxProbeLen, room))

TraceStart == ConvexTrace(ConvexTraces)
TraceProbe ==
    \E new_edges \in AnyProbe(long_edges, long_edge_index, MaxEdges - Len(edges) + 2) :
        ProbeLongEdge(new_edges)

Next == TraceStart \/ SkipLongEdge \/ TraceProbe \/ ReturnOutline \/ FloodFill

Spec == Init /\ [][Next]_vars


-----------------------------------------------------------------------------
(* A ray-cast function whose probes keep yielding new long edges: the convex
   trace sees two far-apart collisions, and every probe sees four collisions
   whose two interior ones are again far apart. *)

MaxCapEdges == 404     \* probes that would grow `edges` beyond this are not taken

FarPair == <<WrapCollision(<<0, 0>>, 1), WrapCollision(<<4, 0>>, 1)>>

WideningProbe(les, lei, room) ==
    IF room >= 4
    THEN {<<FarPair[1]>> \o FarPair \o <<FarPair[1]>>}
    ELSE {}

CapStart == ConvexTrace({FarPair})
CapProbe ==
    \E new_edges \in WideningProbe(long_edges, long_edge_index, MaxCapEdges - Len(edges) + 2) :
        ProbeLongEdge(new_edges)

NextCap == CapStart \/ CapProbe

SpecCap == Init /\ [][NextCap]_vars

-----------------------------------------------------------------------------
(* Claims about trace_outline_concave and flood_fill_concave *)

Returned == pc \in {"traced", "done"}

(* C1: when the initial convex trace yields fewer than 2 collisions,
   trace_outline_concave returns the empty list and never reaches the
   long-edge loop, so no probe is cast. *)
C1_EmptyOnTooFew ==
    (pc # "start" /\ initial_edges < 2) =>
        (Returned /\ outline = <<>> /\ probes = 0)

C1_Witness == pc = "traced" /\ initial_edges = 1 /\ outline = <<>> /\ probes = 0

(* C2: with empty input geometry (the convex trace has no collision)
   flood_fill_concave returns Some(empty list of paths), not None. *)
C2_EmptyGeometryIsEmptyList ==
    (pc = "done" /\ initial_edges = 0) => fill_result = Some(<<>>)

(* C3: when fit_curve returns None, flood_fill_concave returns None and no
   path has been built by Path::from_points / path_remove_interior_points. *)
C3_NoPathOnFitFailure ==
    (pc = "done" /\ curves = None) => (fill_result = None /\ paths_built = 0)

C3_Witness == pc = "done" /\ curves = None /\ Len(outline) >= 2 /\ fill_result = None

(* C4: the long-edge loop runs at most 100 times the initial edge count
   iterations before the outline is returned. *)
C4_IterationCap == long_edge_index <= 100 * initial_edges

(* C5: in the returned outline a collision has what = None exactly when it is
   a self-intersection marker; a collision of the caller's ray-cast function
   has what = Some(item) with the item it was cast with; positions and order
   are those of `edges`. *)
C5_MarkersStripped ==
    (Returned /\ initial_edges >= 2) =>
        /\ Len(outline) = Len(edges)
        /\ \A k \in 1..Len(edges) :
            /\ outline[k].position = edges[k].position
            /\ (outline[k].what = None) <=> (edges[k].what.tag = "SelfIntersection")
            /\ (edges[k].what.tag = "Edge") => (outline[k].what = Some(edges[k].what.ref))

C5_Witness ==
    /\ pc = "traced"
    /\ \E k \in 1..Len(outline) : outline[k].what = None
    /\ \E k \in 1..Len(outline) : outline[k].what = Some(1)


(* the long edges the cursor has not passed yet *)
Pending == (long_edge_index + 1)..Len(long_edges)

(* C15: every long edge at or after the cursor has both indexes inside
   `edges`, and the collisions they name are at its start and its end. *)
C15_LongEdgeIndexes ==
    pc = "loop" =>
        \A k \in Pending :
            /\ long_edges[k].edge_index[1] \in 0..(Len(edges) - 1)
            /\ long_edges[k].edge_index[2] \in 0..(Len(edges) - 1)
            /\ edges[long_edges[k].edge_index[1] + 1].position = long_edges[k].start
            /\ edges[long_edges[k].edge_index[2] + 1].position = long_edges[k].end

(* a splice made while probing the wrap-around edge (last, 0) left a long
   edge found inside the inserted segment, and a shifted one, to be visited *)
C15_Witness ==
    /\ pc = "loop"
    /\ probes = 1
    /\ long_edge_index = 1
    /\ Len(last_probe) > 2
    /\ Len(long_edges) = 3
    /\ long_edges[1].edge_index[2] < long_edges[1].edge_index[1]
    /\ long_edges[2].edge_index = <<0, 1>>
    /\ long_edges[3].edge_index = <<2, 3>>

(* where the long edge at 0-based index k of `long_edges` is after the step:
   the long edges a probe finds are spliced in behind the cursor *)
After(k) ==
    IF k <= long_edge_index THEN k ELSE k + (Len(long_edges') - Len(long_edges))

(* the step is an iteration of the long-edge loop that cast a probe *)
ProbeCast == probes' = probes + 1

(* C16: after each probe, whatever number of collisions it returned, every
   other long edge named by a self-intersection marker among them has
   ray_collided set. *)
C16_SiblingsMarked ==
    [][ProbeCast =>
        \A j \in 1..Len(last_probe') :
            last_probe'[j].what.tag = "SelfIntersection" =>
                long_edges'[After(last_probe'[j].what.ref) + 1].ray_collided]_vars

(* C17: no probe is cast from a long edge whose ray_collided flag is set when
   the cursor reaches it; a flag that is set stays set; skipping such an edge
   changes neither `edges` nor `long_edges`. *)
C17_CollidedSkipped ==
    [][/\ ProbeCast => ~long_edges[long_edge_index + 1].ray_collided
       /\ \A k \in 0..(Len(long_edges) - 1) :
            long_edges[k + 1].ray_collided => long_edges'[After(k) + 1].ray_collided
       /\ (/\ pc = "loop"
           /\ long_edge_index < Len(long_edges)
           /\ long_edges[long_edge_index + 1].ray_collided)
          => (probes' = probes /\ edges' = edges /\ long_edges' = long_edges)]_vars

(* a long edge marked by an earlier probe has just been skipped *)
C17_Witness ==
    /\ pc = "loop"
    /\ probes >= 1
    /\ long_edge_index >= 1
    /\ last_probe = <<>>
    /\ long_edges[long_edge_index].ray_collided

(* C18: a probe that returns n > 2 collisions inserts its n - 2 interior
   ones, in order, immediately before the parent edge's end point in `edges`;
   any other iteration of the loop leaves `edges` as it is.  So no collision
   is removed or reordered. *)
C18_InteriorInserted ==
    [][pc = "loop" =>
        IF ProbeCast /\ Len(last_probe') > 2
        THEN LET parent == long_edges[long_edge_index + 1]
                 at     == parent.edge_index[2]
                 n      == Len(last_probe')
             IN  /\ edges[at + 1].position = parent.end
                 /\ Len(edges') = Len(edges) + n - 2
                 /\ SubSeq(edges', 1, at) = SubSeq(edges, 1, at)
                 /\ SubSeq(edges', at + 1, at + n - 2) = SubSeq(last_probe', 2, n - 1)
                 /\ SubSeq(edges', at + n - 1, Len(edges')) = SubSeq(edges, at + 1, Len(edges))
        ELSE edges' = edges]_vars

(* a probe of four collisions has put its two interior ones into `edges` *)
C18_Witness ==
    /\ pc = "loop"
    /\ probes = 1
    /\ Len(last_probe) = 4
    /\ Len(edges) = initial_edges + 2
    /\ last_probe[1] # last_probe[2]
    /\ last_probe[3] # last_probe[4]

-----------------------------------------------------------------------------
(* Claims about find_roots *)

AlternatingCubic == <<-1, 1, -1, 1>>

Ascending(rs) == \A k \in 1..(Len(rs) - 1) : RatLeq(rs[k], rs[k + 1])

(* strictly between x = 0 (t = 0) and x = 3 (t = 1) *)
StrictlyInside(r) == r.d # 0 /\ r.n > 0 /\ r.n < 3 * r.d

(* |a - b| <= 1e-9 in t, t being x / 3 *)
WithinTolerance(a, b) ==
    /\ a.d # 0
    /\ b.d # 0
    /\ Abs(a.n * b.d - b.n * a.d) <= (3 * a.d * b.d) \div 1000000000

(* C6: the roots are in ascending order: every root pushed is greater than
   or equal to all roots pushed before it. *)
C6_RootsAscending == Ascending(roots)

C6_Witness ==
    /\ r_pc = "done"
    /\ Len(roots) = 2
    /\ RatLeq(roots[1], roots[2])
    /\ roots[1] # roots[2]

(* C7: for the cubic with control-point y (-1, 1, -1, 1), find_roots returns
   exactly three distinct roots, strictly inside (0, 1), in ascending order. *)
C7_ThreeRoots ==
    (r_pc = "done" /\ Ys(points) = AlternatingCubic) =>
        /\ Len(roots) = 3
        /\ \A k \in 1..Len(roots) : StrictlyInside(roots[k])
        /\ Ascending(roots)
        /\ \A j, k \in 1..Len(roots) : j # k => roots[j] # roots[k]

(* C7 as amended: for the cubic with control-point y (-1, 1, -1, 1), which is
   y = (2t - 1)^3, find_roots subdivides once, discards both halves and
   returns no root. *)
C7_NoRootsReturned ==
    (r_pc # "idle" /\ Ys(points) = AlternatingCubic) =>
        /\ roots = <<>>
        /\ \A k \in 1..Len(sections) : sections[k].depth <= 1

C7_Witness ==
    r_pc = "done" /\ Ys(points) = AlternatingCubic /\ roots = <<>> /\ discarded # None

(* C8: no section is discarded as root-free while its first or last control
   point, a point of the curve, lies exactly on the x axis; so a root at an
   end of the parameter range is not lost. *)
C8_EndRootKept ==
    discarded # None =>
        /\ Y(discarded[1].pts[1]) # 0
        /\ Y(discarded[1].pts[4]) # 0

(* C9: the returned list has no two consecutive roots within 1e-9 of each
   other. *)
C9_NoCloseConsecutiveRoots ==
    r_pc = "done" =>
        \A k \in 1..(Len(roots) - 1) : ~WithinTolerance(roots[k], roots[k + 1])

(* C19: find_roots terminates: the stack of sections eventually becomes
   empty and the roots are returned. *)
C19_Terminates == <>(r_pc = "done")

(* the search bisected twice before it ended with one root *)
C19_Witness ==
    /\ r_pc = "done"
    /\ y_unit = "subnormal"
    /\ Len(roots) = 1
    /\ discarded # None
    /\ discarded[1].depth = 2

(* no control point of the polygon lies on the x axis *)
OffAxis(pts) == \A i \in 1..Len(pts) : Y(pts[i]) # 0

(* C20: for every section none of whose control-point y is 0
   count_x_axis_crossings is 0, 2 or 4; it is 1 only for a section with a
   control point whose y is 0. *)
C20_EvenCrossings ==
    \A k \in 1..Len(sections) :
        /\ OffAxis(sections[k].pts) => count_x_axis_crossings(sections[k].pts) \in {0, 2, 4}
        /\ count_x_axis_crossings(sections[k].pts) = 1 => ~OffAxis(sections[k].pts)

(* a half of a subdivided cubic that has one crossing edge and no control
   point on the axis is about to be counted *)
C20_Witness ==
    /\ r_pc = "loop"
    /\ sections # <<>>
    /\ Top(sections).depth >= 1
    /\ OffAxis(Top(sections).pts)
    /\ count_x_axis_crossings_OpenPolygon(Top(sections).pts) = 1
    /\ count_x_axis_crossings(Top(sections).pts) = 2

-----------------------------------------------------------------------------
(* Claims about RayCastContour *)

Max(a, b) == IF a >= b THEN a ELSE b

(* the ranges the claim describes: those not discarded, clamped, non-empty *)
RECURSIVE ClampedRanges(_, _)
ClampedRanges(returned, width) ==
    IF returned = <<>> THEN <<>>
    ELSE LET r    == Head(returned)
             c    == <<Max(Start(r), 0), Min(End(r), width)>>
             rest == ClampedRanges(Tail(returned), width)
         IN  IF End(r) < 0 \/ Start(r) >= width \/ ~(Start(c) < End(c))
             THEN rest
             ELSE <<c>> \o rest

(* C10: intercepts_on_line returns, in order, the ranges
   [max(start, 0), min(end, width)) of the input ranges that are not
   discarded and not empty; every returned range has
   0 <= start < end <= width. *)
C10_ClampedInOrder ==
    c_pc = "returned" =>
        /\ line_result = ClampedRanges(intercepts, size_width)
        /\ \A k \in 1..Len(line_result) :
            /\ 0 <= Start(line_result[k])
            /\ Start(line_result[k]) < End(line_result[k])
            /\ End(line_result[k]) <= size_width

C10_Witness ==
    /\ c_pc = "returned"
    /\ scale_factor = 2
    /\ Len(intercepts) = 2
    /\ Len(line_result) = 1
    /\ line_result[1] # intercepts[1]
    /\ line_result[1] # intercepts[2]

(* ranges in ascending x order that do not overlap *)
SortedDisjoint(rs) ==
    /\ \A k \in 1..Len(rs) : Start(rs[k]) <= End(rs[k])
    /\ \A k \in 1..(Len(rs) - 1) : End(rs[k]) <= Start(rs[k + 1])

(* C11: when intercept_fn returns its ranges in ascending order without
   overlaps, so does intercepts_on_line. *)
C11_OrderPreserved ==
    (c_pc = "returned" /\ SortedDisjoint(intercepts)) => SortedDisjoint(line_result)

C11_Witness ==
    /\ c_pc = "returned"
    /\ SortedDisjoint(intercepts)
    /\ Len(intercepts) = 2
    /\ Len(line_result) = 2
    /\ line_result[1] # intercepts[1]
    /\ line_result[2] # intercepts[2]

(* C12: a violated precondition fails fast: when intercept_fn returned
   unsorted or overlapping ranges intercepts_on_line returns no ranges, and
   when options.step is negative trace_outline_concave casts no probe and
   returns no outline. *)
C12_InvalidInputFailsFast ==
    /\ (c_pc = "returned" /\ ~SortedDisjoint(intercepts)) => line_result = <<>>
    /\ (pc \in {"loop", "traced", "done"} /\ step < 0) => (probes = 0 /\ outline = <<>>)

-----------------------------------------------------------------------------
(* Claims about sampled contours *)

(* C13: the edge cells of a sampled contour are, element for element and in
   the same order, the edge cells of the BoolSampledContour built from its
   point_is_inside samples. *)
C13_SameEdgeCells == g_pc = "edges" => contour_edges = bitmap_edges

-----------------------------------------------------------------------------
(* Claims about Curve *)

(* the control polygon start, control 1, control 2, end of a curve *)
PolygonOf(c) == <<c.start_point, c.control_points[1], c.control_points[2], c.end_point>>

(* the polar form of the cubic with polygon P at the parameters u1, u2, u3
   (numerators over TDenom), divided by TDenom^3 *)
Polar(P, u1, u2, u3) ==
    LET v1 == TDenom - u1
        v2 == TDenom - u2
        v3 == TDenom - u3
        at(i) == P[1][i] * (v1 * v2 * v3)
                 + P[2][i] * (u1 * v2 * v3 + v1 * u2 * v3 + v1 * v2 * u3)
                 + P[3][i] * (u1 * u2 * v3 + u1 * v2 * u3 + v1 * u2 * u3)
                 + P[4][i] * (u1 * u2 * u3)
    IN  <<at(1) \div (TDenom * TDenom * TDenom), at(2) \div (TDenom * TDenom * TDenom)>>

(* C14: subdivide(t) returns (L, R) with L.end_point = R.start_point,
   L.start_point = B.start_point, R.end_point = B.end_point, and with the
   control polygons of B restricted to [0, t] and to [t, 1], so that L
   followed by R reparametrizes B. *)
C14_HalvesJoin ==
    b_pc = "subdivided" =>
        LET B == PolygonOf(curve)
            L == sub_curves[1]
            R == sub_curves[2]
            t == sub_t
        IN  /\ L.end_point = R.start_point
            /\ L.start_point = curve.start_point
            /\ R.end_point = curve.end_point
            /\ PolygonOf(L) = <<Polar(B, 0, 0, 0), Polar(B, 0, 0, t),
                                Polar(B, 0, t, t), Polar(B, t, t, t)>>
            /\ PolygonOf(R) = <<Polar(B, t, t, t), Polar(B, t, t, TDenom),
                                Polar(B, t, TDenom, TDenom), Polar(B, TDenom, TDenom, TDenom)>>

C14_Witness ==
    /\ b_pc = "subdivided"
    /\ sub_t > 0
    /\ sub_t < TDenom
    /\ sub_curves[1].end_point = sub_curves[2].start_point
    /\ sub_curves[1].end_point \notin {curve.start_point, curve.end_point,
                                   curve.control_points[1], curve.control_points[2]}
    /\ sub_curves[1].control_points[1] # sub_curves[1].control_points[2]

====
